---------------------------- MODULE Spec2Model ----------------------------
(***************************************************************************)
(* Model of reports/socorro_import/ImportCrashData.ipynb: the JSON-schema  *)
(* to pyspark StructType translator (create_struct, replace_definitions,   *)
(* get_rows) and the date backfill loop (daterange, import_day, backfill). *)
(*                                                                         *)
(* A JSON document is a heap of dict objects: Python dicts are shared by   *)
(* reference, and replace_definitions rewrites them in place.  Python str  *)
(* values are sequences of character codes.                                *)
(***************************************************************************)
EXTENDS Integers, Sequences, FiniteSets, TLC

\* ------------------------------------------------------------------ bounds
\* The interpreter's recursion limit (frames of replace_definitions / get_rows).
RecursionLimit == 8
\* How many times the sequential caller invokes create_struct on its document.
MaxCalls == 2
\* Days of the calendar the backfill model ranges over (0..MaxDay).
MaxDay == 4
\* Sub-day instants of "now" (time of day, in units of 1/TicksPerDay day).
TicksPerDay == 2

\* --------------------------------------------------------- python strings
S_string  == <<115,116,114,105,110,103>>
S_integer == <<105,110,116,101,103,101,114>>
S_boolean == <<98,111,111,108,101,97,110>>
S_array   == <<97,114,114,97,121>>
S_object  == <<111,98,106,101,99,116>>
S_null    == <<110,117,108,108>>
S_number  == <<110,117,109,98,101,114>>
\* "nullable_string": a single type name that is none of the five
S_nullable_string == <<110,117,108,108,97,98,108,101,95>> \o S_string
Slash == <<47>>
\* property and definition names
N_a  == <<97>>
N_ab == <<97,98>>
N_b  == <<98>>
N_c  == <<99>>
N_d  == <<100>>
N_w  == <<119>>
N_z  == <<122>>
N_X  == <<88>>
N_Y  == <<89>>
N_Q  == <<81>>
\* "#/definitions/" abbreviated to "#/d/": only the last segment is ever read
RefTo(name) == <<35,47,100,47>> \o name

\* needle in hay, for two str values: substring test
Contains(needle, hay) ==
    \E i \in 1..(Len(hay) - Len(needle) + 1) :
        SubSeq(hay, i, i + Len(needle) - 1) = needle

\* s.split(sep) for a one-character sep
RECURSIVE SplitAcc(_, _, _)
SplitAcc(s, sep, cur) ==
    IF s = <<>> THEN <<cur>>
    ELSE IF <<Head(s)>> = sep THEN <<cur>> \o SplitAcc(Tail(s), sep, <<>>)
    ELSE SplitAcc(Tail(s), sep, Append(cur, Head(s)))

Split(s, sep) == SplitAcc(s, sep, <<>>)

\* seq[-1]
LastOf(seq) == seq[Len(seq)]

\* a < b for two str values (lexicographic on character codes)
RECURSIVE StrLess(_, _)
StrLess(a, b) ==
    IF b = <<>> THEN FALSE
    ELSE IF a = <<>> THEN TRUE
    ELSE IF Head(a) < Head(b) THEN TRUE
    ELSE IF Head(a) > Head(b) THEN FALSE
    ELSE StrLess(Tail(a), Tail(b))

RECURSIVE InsertSorted(_, _)
InsertSorted(k, s) ==
    IF s = <<>> THEN <<k>>
    ELSE IF StrLess(k, Head(s)) THEN <<k>> \o s
    ELSE <<Head(s)>> \o InsertSorted(k, Tail(s))

RECURSIVE SortedList(_)
SortedList(s) ==
    IF s = <<>> THEN <<>> ELSE InsertSorted(Head(s), SortedList(Tail(s)))

\* the iteration order get_rows uses over schema['properties']
UnsortedKeys(keys) == keys

PropOrder(keys) == SortedList(keys)

\* --------------------------------------------------------------- the heap
\* A type value: a str, a list of str, or absent.
TStr(s)  == [k |-> "str",  v |-> s]
TList(l) == [k |-> "list", v |-> l]
TNone    == [k |-> "none", v |-> <<>>]

\* x in t, for a str or list t
PyIn(x, t) ==
    IF t.k = "str" THEN Contains(x, t.v)
    ELSE \E i \in 1..Len(t.v) : t.v[i] = x

KV(name, id) == [name |-> name, id |-> id]

\* A dict object. items = 0: no 'items' key. props/defs: (key, object) pairs in
\* the dict's iteration order.
Node(type, hasProps, props, items, hasRef, ref, defs) ==
    [type |-> type, hasProps |-> hasProps, props |-> props, items |-> items,
     hasRef |-> hasRef, ref |-> ref, defs |-> defs]

Blank        == Node(TNone, FALSE, <<>>, 0, FALSE, <<>>, <<>>)
Typed(t)     == Node(t, FALSE, <<>>, 0, FALSE, <<>>, <<>>)
RefNode(n)   == Node(TNone, FALSE, <<>>, 0, TRUE, RefTo(n), <<>>)
WithItems(t, it) == Node(t, FALSE, <<>>, it, FALSE, <<>>, <<>>)
WithProps(t, ps) == Node(t, TRUE, ps, 0, FALSE, <<>>, <<>>)

NumNodes == 14
Ids == 1..NumNodes
RootId == 1

Keys(kvs) == [i \in 1..Len(kvs) |-> kvs[i].name]
HasKey(kvs, name) == \E i \in 1..Len(kvs) : kvs[i].name = name
Lookup(kvs, name) == kvs[CHOOSE i \in 1..Len(kvs) : kvs[i].name = name].id

\* the objects a dict's repr prints: everything under any of its keys
Children(n) ==
    {n.props[i].id : i \in 1..Len(n.props)}
    \cup {n.defs[i].id : i \in 1..Len(n.defs)}
    \cup (IF n.items = 0 THEN {} ELSE {n.items})

RECURSIVE ReachFrom(_, _, _)
ReachFrom(h, frontier, seen) ==
    IF frontier = {} THEN seen
    ELSE LET nxt == UNION {Children(h[i]) : i \in frontier} \ seen
         IN ReachFrom(h, nxt, seen \cup nxt)

Reach(h, id) == ReachFrom(h, {id}, {id})

\* '$ref' in str(schema)
StrHasRef(h, id) == \E i \in Reach(h, id) : h[i].hasRef

\* ------------------------------------------------------------- documents
\* Object ids of a document as json.load builds it (a tree, nothing shared):
\* 1 the root, 2 and 3 the definitions X and Y, 4 and 5 the root's two
\* properties, 6..7, 8..9, 10..12, 13..14 the objects below 4, 5, 2, 3.
T_string   == TStr(S_string)
T_integer  == TStr(S_integer)
T_boolean  == TStr(S_boolean)
T_array    == TStr(S_array)
T_object   == TStr(S_object)
T_number   == TStr(S_number)
T_nstring  == TList(<<S_string, S_null>>)
T_ninteger == TList(<<S_integer, S_null>>)
T_narray   == TList(<<S_array, S_null>>)
T_strint   == TList(<<S_string, S_integer>>)
T_odd      == TStr(S_nullable_string)

Tpl(self, k1, k2) == [self |-> self, k1 |-> k1, k2 |-> k2]

PrimTypes == {T_string, T_integer, T_boolean, T_nstring, T_ninteger,
              T_narray, T_strint, T_number, T_odd}

\* what a property of the root may be; i1, i2 are the ids of its two objects
MetaPrim == {Tpl(Typed(t), Blank, Blank) : t \in PrimTypes}

MetaArrayRef(i1) ==
    {Tpl(WithItems(T_array, i1), RefNode(n), Blank) : n \in {N_X, N_Y, N_Q}}

MetaShapes(i1, i2) ==
    { Tpl(Typed(T_array), Blank, Blank),
      Tpl(WithItems(T_array, i1), WithProps(TNone, <<KV(N_b, i2)>>), Typed(T_integer)),
      Tpl(WithProps(T_object, <<KV(N_d, i1), KV(N_c, i2)>>), Typed(T_boolean), Typed(T_nstring)),
      Tpl(Typed(T_object), Blank, Blank),
      Tpl(RefNode(N_X), Blank, Blank),
      Tpl(Node(T_object, TRUE, <<KV(N_c, i2)>>, i1, FALSE, <<>>, <<>>),
          RefNode(N_X), Typed(T_string)) }

Meta1 == MetaPrim \cup MetaArrayRef(6) \cup MetaShapes(6, 7)

Meta2 ==
    { Tpl(Typed(T_nstring), Blank, Blank),
      Tpl(WithItems(T_array, 8), RefNode(N_X), Blank),
      Tpl(WithProps(T_object, <<KV(N_d, 8), KV(N_c, 9)>>), Typed(T_integer), Typed(T_string)) }

DefX ==
    { Tpl(WithProps(TNone, <<KV(N_z, 10), KV(N_w, 11)>>), Typed(T_string), Typed(T_ninteger)),
      Tpl(WithItems(T_array, 10), RefNode(N_X), Blank),
      Tpl(WithItems(T_array, 10), RefNode(N_Y), Blank),
      Tpl(WithProps(TNone, <<KV(N_z, 10)>>), WithItems(T_array, 11), RefNode(N_Y)),
      Tpl(WithProps(TNone, <<KV(N_z, 10)>>), Typed(T_number), Blank) }

\* definition Y: absent, a plain struct, or an array of X
DefYAbsent == Tpl(Blank, Blank, Blank)

DefY ==
    { DefYAbsent,
      Tpl(WithProps(TNone, <<KV(N_w, 13)>>), Typed(T_boolean), Blank),
      Tpl(WithItems(T_array, 13), RefNode(N_X), Blank) }

\* the key order of the root's 'properties' dict
RootOrders == { <<N_b, N_a>>, <<N_a, N_b>>, <<N_ab, N_a>> }

Doc(ord, m1, m2, dx, dy) ==
    (1 :> Node(TNone, TRUE, <<KV(ord[1], 4), KV(ord[2], 5)>>, 0, FALSE, <<>>,
               IF dy = DefYAbsent THEN <<KV(N_X, 2)>>
               ELSE <<KV(N_X, 2), KV(N_Y, 3)>>))
    @@ (2 :> dx.self) @@ (10 :> dx.k1) @@ (11 :> dx.k2)
    @@ (3 :> dy.self) @@ (13 :> dy.k1) @@ (14 :> dy.k2)
    @@ (4 :> m1.self) @@ (6 :> m1.k1) @@ (7 :> m1.k2)
    @@ (5 :> m2.self) @@ (8 :> m2.k1) @@ (9 :> m2.k2)
    @@ [i \in Ids |-> Blank]

Docs == { Doc(ord, m1, m2, dx, dy) :
            ord \in RootOrders, m1 \in Meta1, m2 \in Meta2, dx \in DefX, dy \in DefY }

\* ----------------------------------------------------------------- errors
Err(kind, what, key) == [kind |-> kind, what |-> what, key |-> key]
NoErr == Err("none", "", <<>>)
\* raise ValueError("Reference not found for schema: ...")
RefNotFound == Err("ValueError", "Reference not found", <<>>)
\* raise ValueError("Invalid JSON schema: properties field is missing.")
PropsMissing == Err("ValueError", "Invalid JSON schema: properties field is missing", <<>>)
\* raise ValueError("Invalid JSON schema: {}".format(str(meta)[:100]))
InvalidType == Err("ValueError", "Invalid JSON schema", <<>>)
\* assert ..., 're-write didnt work'
AssertFailed == Err("AssertionError", "re-write didnt work", <<>>)
\* d[key] on a dict without key
KeyError(key) == Err("KeyError", "", key)
\* the interpreter gives up on a call chain deeper than its recursion limit
RecursionError == Err("RuntimeError", "maximum recursion depth exceeded", <<>>)

\* --------------------------------------------------- replace_definitions
\* One activation of replace_definitions(schema, definitions): the object it
\* was called on, the line it is at, the rest of the .items() list it loops
\* over, and its local ref.
Frame(node, pc, todo, ref) == [node |-> node, pc |-> pc, todo |-> todo, ref |-> ref]
Enter(node) == Frame(node, "l70", <<>>, <<>>)

RDState(h, stk, err) == [h |-> h, stk |-> stk, err |-> err]

\* calling replace_definitions once more from the top activation
RDCall(h, stk, top, node) ==
    IF Len(stk) + 1 > RecursionLimit THEN RDState(h, stk, RecursionError)
    ELSE RDState(h, <<Enter(node)>> \o <<top>> \o Tail(stk), NoErr)

\* line 76, schema['items'] = definitions[ref]: the object put under 'items'
Substitute(defs, ref) == Lookup(defs, ref)

\* line 75, the key looked up in definitions
RefKey(refstr) == LastOf(Split(refstr, Slash))

\* line 74 without its test: every 'items' taken to be a reference
AssumeRef(h, id) == TRUE

\* line 74: '$ref' in schema['items']
ItemsIsRef(h, id) == h[id].hasRef

\* One line of the top activation; stk is the call stack, top first.
RDStep(h, stk, defs) ==
    LET top  == Head(stk)
        rest == Tail(stk)
        n    == h[top.node]
    IN CASE top.pc = "l70" ->
              IF n.hasProps
                THEN RDState(h, <<[top EXCEPT !.pc = "l71",
                                     !.todo = [i \in 1..Len(n.props) |-> n.props[i].id]]>> \o rest, NoErr)
              ELSE IF n.items # 0
                THEN RDState(h, <<[top EXCEPT !.pc = "l74"]>> \o rest, NoErr)
              ELSE IF StrHasRef(h, top.node)
                THEN RDState(h, stk, RefNotFound)
              ELSE RDState(h, rest, NoErr)
         [] top.pc = "l71" ->
              IF top.todo = <<>> THEN RDState(h, rest, NoErr)
              ELSE RDCall(h, stk, [top EXCEPT !.todo = Tail(top.todo)], Head(top.todo))
         [] top.pc = "l74" ->
              IF ItemsIsRef(h, n.items)
                THEN RDState(h, <<[top EXCEPT !.pc = "l75"]>> \o rest, NoErr)
                ELSE RDState(h, <<[top EXCEPT !.pc = "l79"]>> \o rest, NoErr)
         [] top.pc = "l75" ->
              IF ~h[n.items].hasRef THEN RDState(h, stk, KeyError(<<36,114,101,102>>))
              ELSE RDState(h, <<[top EXCEPT !.pc = "l76",
                                   !.ref = RefKey(h[n.items].ref)]>> \o rest, NoErr)
         [] top.pc = "l76" ->
              IF ~HasKey(defs, top.ref) THEN RDState(h, stk, KeyError(top.ref))
              ELSE RDState([h EXCEPT ![top.node].items = Substitute(defs, top.ref)],
                           <<[top EXCEPT !.pc = "l77"]>> \o rest, NoErr)
         [] top.pc \in {"l77", "l79"} ->
              RDCall(h, stk, [top EXCEPT !.pc = "ret"], n.items)
         [] OTHER -> RDState(h, rest, NoErr)

\* the whole of replace_definitions, run without interruption
RECURSIVE RunRD(_, _, _)
RunRD(h, stk, defs) ==
    IF stk = <<>> THEN RDState(h, stk, NoErr)
    ELSE LET r == RDStep(h, stk, defs)
         IN IF r.err # NoErr THEN r ELSE RunRD(r.h, r.stk, defs)

\* --------------------------------------------------------------- get_rows
\* StructField(name, dataType, nullable); children are the fields of the
\* StructType the dataType is (Struct) or wraps (ArrayOfStruct).
Field(name, kind, nullable, children) ==
    [name |-> name, kind |-> kind, nullable |-> nullable, children |-> children]

Rows(err, rows) == [err |-> err, rows |-> rows]

\* the third argument of StructField for string, integer and boolean fields
AlwaysNullable(t) == TRUE

NullableOf(t) == PyIn(S_null, t)

\* meta['type'] == 'array'
TypeIs(t, s) == t.k = "str" /\ t.v = s

\* ArrayType(struct) around the rows of meta['items'], lines 106-109
ArrayOfNothing(name, rows) == Field(name, "ArrayOfStruct", TRUE, <<>>)

ArrayOfStruct(name, rows) == Field(name, "ArrayOfStruct", TRUE, rows)

RECURSIVE GetRows(_, _, _)
RECURSIVE RowsOf(_, _, _, _)
RECURSIVE FieldOf(_, _, _, _)
\* lines 95-118: the StructField of one property, or the error raised for it
FieldOf(h, name, id, fuel) ==
    LET meta == h[id]
        t    == meta.type
    IN IF t.k = "none" THEN Rows(KeyError(<<116,121,112,101>>), <<>>)
       ELSE IF PyIn(S_string, t)
         THEN Rows(NoErr, <<Field(name, "String", NullableOf(t), <<>>)>>)
       ELSE IF PyIn(S_integer, t)
         THEN Rows(NoErr, <<Field(name, "Integer", NullableOf(t), <<>>)>>)
       ELSE IF PyIn(S_boolean, t)
         THEN Rows(NoErr, <<Field(name, "Boolean", NullableOf(t), <<>>)>>)
       ELSE IF TypeIs(t, S_array) /\ meta.items = 0
         THEN Rows(NoErr, <<Field(name, "ArrayOfString", TRUE, <<>>)>>)
       ELSE IF TypeIs(t, S_array) /\ meta.items # 0
         THEN LET sub == GetRows(h, meta.items, fuel - 1)
              IN IF sub.err # NoErr THEN Rows(sub.err, <<>>)
                 ELSE Rows(NoErr, <<ArrayOfStruct(name, sub.rows)>>)
       ELSE IF TypeIs(t, S_object)
         THEN LET sub == GetRows(h, id, fuel - 1)
              IN IF sub.err # NoErr THEN Rows(sub.err, <<>>)
                 ELSE Rows(NoErr, <<Field(name, "Struct", TRUE, sub.rows)>>)
       ELSE Rows(InvalidType, <<>>)

\* the for loop of line 93 over the keys still to visit
RowsOf(h, id, keys, fuel) ==
    IF keys = <<>> THEN Rows(NoErr, <<>>)
    ELSE LET first == FieldOf(h, Head(keys), Lookup(h[id].props, Head(keys)), fuel)
         IN IF first.err # NoErr THEN first
            ELSE LET rest == RowsOf(h, id, Tail(keys), fuel)
                 IN IF rest.err # NoErr THEN rest
                    ELSE Rows(NoErr, first.rows \o rest.rows)

\* get_rows(schema), consumed to its end as create_struct does
GetRows(h, id, fuel) ==
    IF fuel = 0 THEN Rows(RecursionError, <<>>)
    ELSE IF ~h[id].hasProps THEN Rows(PropsMissing, <<>>)
    ELSE RowsOf(h, id, PropOrder(Keys(h[id].props)), fuel)

\* line 59: whether create_struct goes on to build the struct
PostCondition(h) == ~StrHasRef(h, RootId)

\* create_struct(schema) run alone on document h: its result, and the heap it leaves
Outcome(err, rows, h) == [err |-> err, rows |-> rows, h |-> h]

CreateStruct(h) ==
    LET r == RunRD(h, <<Enter(RootId)>>, h[RootId].defs)
    IN IF r.err # NoErr THEN Outcome(r.err, <<>>, r.h)
       ELSE IF ~PostCondition(r.h) THEN Outcome(AssertFailed, <<>>, r.h)
       ELSE LET g == GetRows(r.h, RootId, RecursionLimit)
            IN Outcome(g.err, g.rows, r.h)

\* ------------------------------------------------------------------ state
VARIABLES
    heap,      \* the schema document's objects, shared by every caller holding it
    doc0,      \* the document as it was fetched
    pc,        \* per caller: where it is in create_struct
    stack,     \* per caller: its activations of replace_definitions, top first
               \* (after a raise: the traceback, the raising activation first)
    results,   \* per caller: what each of its create_struct calls returned or raised
    budget,    \* per caller: the calls it still has to make
    now,       \* dt.utcnow(): [day, tick]
    startDate, \* backfill's start date (a day)
    bpc,       \* where the import script / backfill is
    todo,      \* the dates daterange has still to yield
    imported,  \* crash_date partitions written
    logged     \* errors passed to log.error by backfill

tvars == <<heap, doc0, pc, stack, results, budget>>
bvars == <<now, startDate, bpc, todo, imported, logged>>
vars  == <<heap, doc0, pc, stack, results, budget,
           now, startDate, bpc, todo, imported, logged>>

Callers == {1, 2}

Result(err, rows) == [err |-> err, rows |-> rows]

BackfillIdle ==
    /\ now = [day |-> 0, tick |-> 0]
    /\ startDate = 0
    /\ bpc = "off"
    /\ todo = <<>>
    /\ imported = {}
    /\ logged = <<>>

TranslatorInit(docs, calls) ==
    /\ heap \in docs
    /\ doc0 = heap
    /\ pc = [c \in Callers |-> "idle"]
    /\ stack = [c \in Callers |-> <<>>]
    /\ results = [c \in Callers |-> <<>>]
    /\ budget = calls

\* one caller, calling create_struct MaxCalls times on the document it holds
Init == TranslatorInit(Docs, (1 :> MaxCalls) @@ (2 :> 0)) /\ BackfillIdle

\* line 58: create_struct calls replace_definitions(schema, schema['definitions'])
Call(c) ==
    /\ pc[c] \in {"idle", "done"}
    /\ budget[c] > 0
    /\ budget' = [budget EXCEPT ![c] = @ - 1]
    /\ pc' = [pc EXCEPT ![c] = "l58"]
    /\ stack' = [stack EXCEPT ![c] = <<Enter(RootId)>>]
    /\ UNCHANGED <<heap, doc0, results>>
    /\ UNCHANGED bvars

\* one line of the caller's innermost replace_definitions activation
Resolve(c) ==
    /\ pc[c] = "l58"
    /\ stack[c] # <<>>
    /\ LET r == RDStep(heap, stack[c], heap[RootId].defs)
       IN /\ heap' = r.h
          /\ IF r.err # NoErr
               THEN /\ results' = [results EXCEPT ![c] = Append(@, Result(r.err, <<>>))]
                    /\ pc' = [pc EXCEPT ![c] = "done"]
                    /\ stack' = [stack EXCEPT ![c] = r.stk]
               ELSE /\ results' = results
                    /\ pc' = [pc EXCEPT ![c] = IF r.stk = <<>> THEN "l59" ELSE "l58"]
                    /\ stack' = [stack EXCEPT ![c] = r.stk]
    /\ UNCHANGED <<doc0, budget>>
    /\ UNCHANGED bvars

\* line 59: assert '$ref' not in str(schema)
AssertResolved(c) ==
    /\ pc[c] = "l59"
    /\ IF PostCondition(heap)
         THEN /\ pc' = [pc EXCEPT ![c] = "l61"]
              /\ results' = results
         ELSE /\ pc' = [pc EXCEPT ![c] = "done"]
              /\ results' = [results EXCEPT ![c] = Append(@, Result(AssertFailed, <<>>))]
    /\ UNCHANGED <<heap, doc0, stack, budget>>
    /\ UNCHANGED bvars

\* lines 61-65: the StructType of get_rows(schema), or the error get_rows raises
BuildStruct(c) ==
    /\ pc[c] = "l61"
    /\ LET g == GetRows(heap, RootId, RecursionLimit)
       IN results' = [results EXCEPT ![c] = Append(@, Result(g.err, g.rows))]
    /\ pc' = [pc EXCEPT ![c] = "done"]
    /\ UNCHANGED <<heap, doc0, stack, budget>>
    /\ UNCHANGED bvars

Next ==
    \E c \in Callers :
        \/ Call(c)
        \/ Resolve(c)
        \/ AssertResolved(c)
        \/ BuildStruct(c)

Spec == Init /\ [][Next]_vars

\* several callers, each calling create_struct once on the one fetched document
ConcDocs ==
    { Doc(<<N_b, N_a>>, m1, m2, dx, dy) :
        m1 \in MetaArrayRef(6) \cup {Tpl(Typed(T_string), Blank, Blank)},
        m2 \in {Tpl(Typed(T_nstring), Blank, Blank),
                Tpl(WithItems(T_array, 8), RefNode(N_X), Blank)},
        dx \in DefX, dy \in DefY }

InitConc == TranslatorInit(ConcDocs, (1 :> 1) @@ (2 :> 1)) /\ BackfillIdle

SpecConc == InitConc /\ [][Next]_vars

\* --------------------------------------------------------------- backfill
\* A datetime is [day, tick]: a day number and the time of day.
DateTime(day, tick) == [day |-> day, tick |-> tick]

\* a - timedelta(n)
MinusDays(a, n) == DateTime(a.day - n, a.tick)

\* (a - b).days
DaysBetween(a, b) ==
    ((a.day * TicksPerDay + a.tick) - (b.day * TicksPerDay + b.tick)) \div TicksPerDay

\* .strftime("%Y%m%d"): the date, the time of day dropped
StrfDate(a) == a.day

\* dt.strptime(s, "%Y%m%d"): midnight of that date
StrpDate(d) == DateTime(d, 0)

\* list(daterange(start_date, end_date))
DateRange(start, end) ==
    [n \in 1..(DaysBetween(end, start) + 1) |-> StrfDate(MinusDays(end, n - 1))]

\* dt.utcnow() - timedelta(1)
Yesterday == MinusDays(now, 1)

TypeError(d) == [kind |-> "TypeError", date |-> d]
ImportFailure(d) == [kind |-> "ImportFailure", date |-> d]
NoFailure == [kind |-> "none", date |-> 0]

\* import_day(*args): def import_day(d, schema, version); ok is whether the
\* read of the day's JSON and the write of its parquet succeed
ImportDay(args, ok) ==
    IF Len(args) # 3 THEN [err |-> TypeError(args[1]), wrote |-> {}]
    ELSE IF ~ok THEN [err |-> ImportFailure(args[1]), wrote |-> {}]
    ELSE [err |-> NoFailure, wrote |-> {args[1]}]

\* the arguments of the call of line 212
BackfillArgs(d) == <<d>>

InitBackfill ==
    /\ TranslatorInit({Doc(<<N_a, N_b>>, Tpl(Typed(T_string), Blank, Blank),
                           Tpl(Typed(T_nstring), Blank, Blank),
                           Tpl(WithProps(TNone, <<KV(N_z, 10)>>), Typed(T_number), Blank),
                           DefYAbsent)},
                      (1 :> 0) @@ (2 :> 0))
    /\ now \in {DateTime(d, t) : d \in 0..MaxDay, t \in 0..(TicksPerDay - 1)}
    /\ startDate \in 0..MaxDay
    /\ bpc = "start"
    /\ todo = <<>>
    /\ imported = {}
    /\ logged = <<>>

\* lines 228-237: the notebook's own run, one import_day of the target date
MainImport ==
    /\ bpc = "start"
    /\ \E target \in {StrfDate(Yesterday)} \cup 0..MaxDay, ok \in BOOLEAN :
          LET r == ImportDay(<<target, "schema", "version">>, ok)
          IN /\ imported' = imported \cup r.wrote
             /\ bpc' = IF r.err = NoFailure THEN "imported" ELSE "raised"
    /\ UNCHANGED <<now, startDate, todo, logged>>
    /\ UNCHANGED tvars

\* lines 208-210: backfill(start_date_yyyymmdd, schema, version) up to the loop
BackfillStart ==
    /\ bpc = "start"
    /\ todo' = DateRange(StrpDate(startDate), Yesterday)
    /\ bpc' = "loop"
    /\ UNCHANGED <<now, startDate, imported, logged>>
    /\ UNCHANGED tvars

\* lines 210-214: one turn of the loop
BackfillIter ==
    /\ bpc = "loop"
    /\ todo # <<>>
    /\ \E ok \in BOOLEAN :
          LET r == ImportDay(BackfillArgs(Head(todo)), ok)
          IN /\ imported' = imported \cup r.wrote
             /\ logged' = IF r.err = NoFailure THEN logged ELSE Append(logged, r.err)
    /\ todo' = Tail(todo)
    /\ UNCHANGED <<now, startDate, bpc>>
    /\ UNCHANGED tvars

\* the loop is over: backfill returns
BackfillReturn ==
    /\ bpc = "loop"
    /\ todo = <<>>
    /\ bpc' = "done"
    /\ UNCHANGED <<now, startDate, todo, imported, logged>>
    /\ UNCHANGED tvars

NextBackfill ==
    \/ MainImport
    \/ BackfillStart
    \/ BackfillIter
    \/ BackfillReturn

SpecBackfill == InitBackfill /\ [][NextBackfill]_vars

\* ------------------------------------------------------------- properties
Defs == doc0[RootId].defs
\* the calls of caller c that have ended, and the last of them
Ended(c) == pc[c] = "done" /\ results[c] # <<>>
LastResult(c) == results[c][Len(results[c])]
Returned(c) == Ended(c) /\ LastResult(c).err = NoErr
FirstEnded(c) == pc[c] = "done" /\ Len(results[c]) = 1

RECURSIVE AllFields(_)
\* every field node of a returned schema, at any depth
AllFields(rows) ==
    UNION { {rows[i]} \cup AllFields(rows[i].children) : i \in 1..Len(rows) }

\* C1: a document holding a $ref either fails with the resolver's
\* 'Reference not found' ValueError, or is left without any $ref by
\* replace_definitions; nothing else happens.
C1_ResolutionComplete ==
    \A c \in Callers :
        (FirstEnded(c) /\ StrHasRef(doc0, RootId)) =>
            \/ LastResult(c).err = RefNotFound
            \/ ~StrHasRef(heap, RootId)

RECURSIVE SortedAtEveryLevel(_)
SortedAtEveryLevel(rows) ==
    /\ \A i \in 1..(Len(rows) - 1) : ~StrLess(rows[i + 1].name, rows[i].name)
    /\ \A i \in 1..Len(rows) : SortedAtEveryLevel(rows[i].children)

\* C2: in every returned schema the children of the root Struct, of every
\* Struct field and of the Struct under every ArrayOfStruct field are in
\* ascending order of field name.
C2_SortInvariant ==
    \A c \in Callers : Returned(c) => SortedAtEveryLevel(LastResult(c).rows)

\* a schema was returned for a document whose root keys and whose definition
\* X's keys are not in sorted order, and X's fields are in the output
C2_Witness ==
    /\ Returned(1)
    /\ Keys(doc0[RootId].props) = <<N_b, N_a>>
    /\ Keys(doc0[2].props) = <<N_z, N_w>>
    /\ \E f \in AllFields(LastResult(1).rows) :
          f.kind = "ArrayOfStruct" /\ Len(f.children) = 2

\* the 'type' value is a list holding "null"
ListWithNull(t) == t.k = "list" /\ \E i \in 1..Len(t.v) : t.v[i] = S_null

NullIffListed(t, f) == f.nullable <=> ListWithNull(t)

NullAsCoded(t, f) ==
    IF f.kind \in {"String", "Integer", "Boolean"}
      THEN f.nullable <=> (IF t.k = "list" THEN ListWithNull(t) ELSE Contains(S_null, t.v))
      ELSE f.nullable

RECURSIVE FieldsVsTypes(_, _, _, _)
\* rule holds of every field of rows and the 'type' of the property it was made
\* from; id is the object whose 'properties' rows translates
FieldsVsTypes(h, id, rows, rule) ==
    \A i \in 1..Len(rows) :
        LET f    == rows[i]
            mid  == Lookup(h[id].props, f.name)
            meta == h[mid]
        IN /\ IF rule = "listed" THEN NullIffListed(meta.type, f)
              ELSE NullAsCoded(meta.type, f)
           /\ CASE f.kind = "ArrayOfStruct" -> FieldsVsTypes(h, meta.items, f.children, rule)
                [] f.kind = "Struct" -> FieldsVsTypes(h, mid, f.children, rule)
                [] OTHER -> TRUE

\* C3 as stated: a field is nullable iff its 'type' is a list holding "null";
\* a single type name, array and object included, gives nullable = false.
C3_NullableIffListed ==
    \A c \in Callers :
        Returned(c) => FieldsVsTypes(heap, RootId, LastResult(c).rows, "listed")

\* C3 amended: a String, Integer or Boolean field is nullable iff "null" is in
\* its 'type' value (an element of a list, a substring of a single type name);
\* an ArrayOfString, ArrayOfStruct or Struct field is always nullable.
C3_NullableAsCoded ==
    \A c \in Callers :
        Returned(c) => FieldsVsTypes(heap, RootId, LastResult(c).rows, "coded")

\* a returned schema with a nullable String, a non-nullable String and an array
C3_Witness ==
    /\ Returned(1)
    /\ \E f, g, a \in AllFields(LastResult(1).rows) :
          /\ f.kind = "String" /\ f.nullable
          /\ g.kind = "String" /\ ~g.nullable
          /\ a.kind = "ArrayOfStruct"

\* the raising activation of caller c was looking up a key definitions lacks
MissingTarget(c) ==
    /\ pc[c] = "done"
    /\ stack[c] # <<>>
    /\ Head(stack[c]).pc = "l76"
    /\ ~HasKey(Defs, Head(stack[c]).ref)

\* C4: an 'items' $ref whose last segment is no key of definitions makes
\* create_struct fail with the resolver's 'Reference not found' ValueError.
C4_MissingDefinition ==
    \A c \in Callers : MissingTarget(c) => LastResult(c).err = RefNotFound

FiveTypes == {S_string, S_integer, S_boolean, S_array, S_object}

\* one of the five type names, alone or in a union with "null"
Supported(t) ==
    \/ t.k = "str" /\ t.v \in FiveTypes
    \/ /\ t.k = "list"
       /\ \E x \in FiveTypes : {t.v[i] : i \in 1..Len(t.v)} \in {{x}, {x, S_null}}

\* the type names s, alone or within a list
Names(t, s) == IF t.k = "str" THEN t.v = s ELSE \E i \in 1..Len(t.v) : t.v[i] = s

RECURSIVE PropertyIds(_, _, _)
\* the properties get_rows is to translate from object id: those of its
\* 'properties', of the 'items' of its array properties and of its object
\* properties, to any depth (fuel bounds it)
PropertyIds(h, id, fuel) ==
    IF fuel = 0 \/ ~h[id].hasProps THEN {}
    ELSE UNION { LET p == h[id].props[i].id
                 IN {p}
                    \cup (IF Names(h[p].type, S_array) /\ h[p].items # 0
                            THEN PropertyIds(h, h[p].items, fuel - 1) ELSE {})
                    \cup (IF Names(h[p].type, S_object)
                            THEN PropertyIds(h, p, fuel - 1) ELSE {})
                 : i \in 1..Len(h[id].props) }

\* C5: a property whose 'type' is none of the five (alone or with "null")
\* makes create_struct fail with the 'Invalid JSON schema' ValueError, and a
\* property whose 'type' is one of them never does.
C5_UnsupportedType ==
    \A c \in Callers :
        (FirstEnded(c) /\ LastResult(c).err \in {NoErr, InvalidType}) =>
            ((LastResult(c).err = InvalidType)
               <=> \E i \in PropertyIds(heap, RootId, NumNodes) : ~Supported(heap[i].type))

\* definition N translated on its own: the fetched document with N's
\* properties in the place of the root's, resolved and then mapped by get_rows
TranslationOf(n) ==
    LET h == [doc0 EXCEPT ![RootId].props = doc0[Lookup(Defs, n)].props]
        r == RunRD(h, <<Enter(RootId)>>, h[RootId].defs)
    IN GetRows(r.h, RootId, RecursionLimit).rows

\* in the fetched document, object id is {"type": "array", "items": {"$ref": ".../N"}}
\* with N a definition that has 'properties'
IsArrayOfRef(id) ==
    /\ TypeIs(doc0[id].type, S_array)
    /\ ~doc0[id].hasProps
    /\ doc0[id].items # 0
    /\ doc0[doc0[id].items].hasRef
    /\ HasKey(Defs, RefKey(doc0[doc0[id].items].ref))
    /\ doc0[Lookup(Defs, RefKey(doc0[doc0[id].items].ref))].hasProps

RefTarget(id) == RefKey(doc0[doc0[id].items].ref)

RECURSIVE ArraysOfRefs(_, _)
\* rows translates the 'properties' of object id of the fetched document
ArraysOfRefs(id, rows) ==
    \A i \in 1..Len(rows) :
        LET f   == rows[i]
            mid == Lookup(doc0[id].props, f.name)
        IN IF IsArrayOfRef(mid)
             THEN /\ f.kind = "ArrayOfStruct"
                  /\ f.children = TranslationOf(RefTarget(mid))
                  /\ ArraysOfRefs(Lookup(Defs, RefTarget(mid)), f.children)
             ELSE CASE f.kind = "ArrayOfStruct" -> ArraysOfRefs(doc0[mid].items, f.children)
                    [] f.kind = "Struct" -> ArraysOfRefs(mid, f.children)
                    [] OTHER -> TRUE

\* C6: in a returned schema, a property {"type": "array", "items": {"$ref": N}}
\* with N a definition that has properties is an ArrayOfStruct whose Struct's
\* children are the translation of N's properties, also when several
\* properties refer to N.
C6_ArrayOfReferenced ==
    \A c \in Callers : Returned(c) => ArraysOfRefs(RootId, LastResult(c).rows)

\* a schema returned for a document whose two root properties refer to X
C6_Witness ==
    /\ Returned(1)
    /\ IsArrayOfRef(4) /\ IsArrayOfRef(5)
    /\ RefTarget(4) = N_X /\ RefTarget(5) = N_X
    /\ \A i \in 1..2 : Len(LastResult(1).rows[i].children) = 2

\* C7: create_struct called again on the document it has already resolved in
\* place returns the schema it returned the first time.
C7_Determinism ==
    \A c \in Callers :
        (pc[c] = "done" /\ Len(results[c]) >= 2 /\ results[c][1].err = NoErr) =>
            \A i \in 2..Len(results[c]) : results[c][i] = results[c][1]

\* two calls have returned on a document that held references
C7_Witness ==
    /\ pc[1] = "done"
    /\ Len(results[1]) = 2
    /\ results[1][1].err = NoErr
    /\ results[1][1].rows # <<>>
    /\ StrHasRef(doc0, RootId)

\* C8: each of the concurrent callers gets what create_struct gives when run
\* alone on the fetched document.
C8_ConcurrentAsAlone ==
    \A c \in Callers :
        FirstEnded(c) =>
            LastResult(c) = Result(CreateStruct(doc0).err, CreateStruct(doc0).rows)

\* C9: when backfill returns, every date from the start date through
\* yesterday has been imported, or its import (read or write) failed and was
\* logged.
C9_BackfillCoverage ==
    bpc = "done" =>
        \A d \in startDate..StrfDate(Yesterday) :
            \/ d \in imported
            \/ \E i \in 1..Len(logged) : logged[i] = ImportFailure(d)

\* C10: replace_definitions never enters an object it is already working on
\* (which is what makes the walk of a finite document end), and create_struct
\* never ends by exhausting the interpreter's recursion limit.
C10_Terminates ==
    \A c \in Callers :
        /\ \A i, j \in 1..Len(stack[c]) : i # j => stack[c][i].node # stack[c][j].node
        /\ \A i \in 1..Len(results[c]) : results[c][i].err # RecursionError
=============================================================================
